---- MODULE Spec2Model ----
(***************************************************************************)
(* A model of the fcitx5 front-end processor: main (src/src/main.rs), the  *)
(* event loop run_event_loop and the key mapper map_key_event_to_fcitx     *)
(* (src/src/event_loop.rs), the async Fcitx client (src/src/state.rs) and  *)
(* the terminal driver (src/src/terminal.rs).                              *)
(*                                                                         *)
(* Text is a sequence of Unicode code points.  The module crate::state     *)
(* (AppState, FcitxUpdate) is used by the sources but is not among them:   *)
(* AppState_new and apply_update follow the written contract of Session.   *)
(***************************************************************************)
EXTENDS Integers, Sequences, FiniteSets, TLC

(* ------------------------------ bounds --------------------------------- *)

\* Events the environment produces in one run: items of the terminal source
\* plus signals of the IME.
MaxEvents == 3

\* Longest text and largest cursor offset drawn for the Session contract.
MaxLen == 3

MaxCursor == 5

(* --------------------------- X11 key symbols --------------------------- *)

keysyms ==
  [ XK_BackSpace |-> 65288, XK_Tab |-> 65289, XK_Return |-> 65293, XK_Escape |-> 65307,
    XK_Left |-> 65361, XK_Up |-> 65362, XK_Right |-> 65363, XK_Down |-> 65364,
    XK_Delete |-> 65535, XK_space |-> 32, XK_exclam |-> 33, XK_quotedbl |-> 34,
    XK_numbersign |-> 35, XK_dollar |-> 36, XK_percent |-> 37, XK_ampersand |-> 38,
    XK_apostrophe |-> 39, XK_parenleft |-> 40, XK_parenright |-> 41, XK_asterisk |-> 42,
    XK_plus |-> 43, XK_comma |-> 44, XK_minus |-> 45, XK_period |-> 46,
    XK_slash |-> 47, XK_0 |-> 48, XK_1 |-> 49, XK_2 |-> 50,
    XK_3 |-> 51, XK_4 |-> 52, XK_5 |-> 53, XK_6 |-> 54,
    XK_7 |-> 55, XK_8 |-> 56, XK_9 |-> 57, XK_colon |-> 58,
    XK_semicolon |-> 59, XK_less |-> 60, XK_equal |-> 61, XK_greater |-> 62,
    XK_question |-> 63, XK_at |-> 64, XK_A |-> 65, XK_B |-> 66,
    XK_C |-> 67, XK_D |-> 68, XK_E |-> 69, XK_F |-> 70,
    XK_G |-> 71, XK_H |-> 72, XK_I |-> 73, XK_J |-> 74,
    XK_K |-> 75, XK_L |-> 76, XK_M |-> 77, XK_N |-> 78,
    XK_O |-> 79, XK_P |-> 80, XK_Q |-> 81, XK_R |-> 82,
    XK_S |-> 83, XK_T |-> 84, XK_U |-> 85, XK_V |-> 86,
    XK_W |-> 87, XK_X |-> 88, XK_Y |-> 89, XK_Z |-> 90,
    XK_bracketleft |-> 91, XK_backslash |-> 92, XK_bracketright |-> 93, XK_asciicircum |-> 94,
    XK_underscore |-> 95, XK_grave |-> 96, XK_a |-> 97, XK_b |-> 98,
    XK_c |-> 99, XK_d |-> 100, XK_e |-> 101, XK_f |-> 102,
    XK_g |-> 103, XK_h |-> 104, XK_i |-> 105, XK_j |-> 106,
    XK_k |-> 107, XK_l |-> 108, XK_m |-> 109, XK_n |-> 110,
    XK_o |-> 111, XK_p |-> 112, XK_q |-> 113, XK_r |-> 114,
    XK_s |-> 115, XK_t |-> 116, XK_u |-> 117, XK_v |-> 118,
    XK_w |-> 119, XK_x |-> 120, XK_y |-> 121, XK_z |-> 122,
    XK_braceleft |-> 123, XK_bar |-> 124, XK_braceright |-> 125, XK_asciitilde |-> 126 ]

CharArms ==
  [ c \in {32, 33, 34, 35, 36, 37, 38, 39, 40, 41, 42, 43, 44, 45, 46, 47} \cup
           {48, 49, 50, 51, 52, 53, 54, 55, 56, 57, 58, 59, 60, 61, 62, 63} \cup
           {64, 65, 66, 67, 68, 69, 70, 71, 72, 73, 74, 75, 76, 77, 78, 79} \cup
           {80, 81, 82, 83, 84, 85, 86, 87, 88, 89, 90, 91, 92, 93, 94, 95} \cup
           {96, 97, 98, 99, 100, 101, 102, 103, 104, 105, 106, 107, 108, 109, 110, 111} \cup
           {112, 113, 114, 115, 116, 117, 118, 119, 120, 121, 122, 123, 124, 125, 126} |->
    CASE c = 32 -> keysyms.XK_space  [] c = 33 -> keysyms.XK_exclam  [] c = 34 -> keysyms.XK_quotedbl
      [] c = 35 -> keysyms.XK_numbersign  [] c = 36 -> keysyms.XK_dollar  [] c = 37 -> keysyms.XK_percent
      [] c = 38 -> keysyms.XK_ampersand  [] c = 39 -> keysyms.XK_apostrophe  [] c = 40 -> keysyms.XK_parenleft
      [] c = 41 -> keysyms.XK_parenright  [] c = 42 -> keysyms.XK_asterisk  [] c = 43 -> keysyms.XK_plus
      [] c = 44 -> keysyms.XK_comma  [] c = 45 -> keysyms.XK_minus  [] c = 46 -> keysyms.XK_period
      [] c = 47 -> keysyms.XK_slash  [] c = 48 -> keysyms.XK_0  [] c = 49 -> keysyms.XK_1
      [] c = 50 -> keysyms.XK_2  [] c = 51 -> keysyms.XK_3  [] c = 52 -> keysyms.XK_4
      [] c = 53 -> keysyms.XK_5  [] c = 54 -> keysyms.XK_6  [] c = 55 -> keysyms.XK_7
      [] c = 56 -> keysyms.XK_8  [] c = 57 -> keysyms.XK_9  [] c = 58 -> keysyms.XK_colon
      [] c = 59 -> keysyms.XK_semicolon  [] c = 60 -> keysyms.XK_less  [] c = 61 -> keysyms.XK_equal
      [] c = 62 -> keysyms.XK_greater  [] c = 63 -> keysyms.XK_question  [] c = 64 -> keysyms.XK_at
      [] c = 65 -> keysyms.XK_A  [] c = 66 -> keysyms.XK_B  [] c = 67 -> keysyms.XK_C
      [] c = 68 -> keysyms.XK_D  [] c = 69 -> keysyms.XK_E  [] c = 70 -> keysyms.XK_F
      [] c = 71 -> keysyms.XK_G  [] c = 72 -> keysyms.XK_H  [] c = 73 -> keysyms.XK_I
      [] c = 74 -> keysyms.XK_J  [] c = 75 -> keysyms.XK_K  [] c = 76 -> keysyms.XK_L
      [] c = 77 -> keysyms.XK_M  [] c = 78 -> keysyms.XK_N  [] c = 79 -> keysyms.XK_O
      [] c = 80 -> keysyms.XK_P  [] c = 81 -> keysyms.XK_Q  [] c = 82 -> keysyms.XK_R
      [] c = 83 -> keysyms.XK_S  [] c = 84 -> keysyms.XK_T  [] c = 85 -> keysyms.XK_U
      [] c = 86 -> keysyms.XK_V  [] c = 87 -> keysyms.XK_W  [] c = 88 -> keysyms.XK_X
      [] c = 89 -> keysyms.XK_Y  [] c = 90 -> keysyms.XK_Z  [] c = 91 -> keysyms.XK_bracketleft
      [] c = 92 -> keysyms.XK_backslash  [] c = 93 -> keysyms.XK_bracketright  [] c = 94 -> keysyms.XK_asciicircum
      [] c = 95 -> keysyms.XK_underscore  [] c = 96 -> keysyms.XK_grave  [] c = 97 -> keysyms.XK_a
      [] c = 98 -> keysyms.XK_b  [] c = 99 -> keysyms.XK_c  [] c = 100 -> keysyms.XK_d
      [] c = 101 -> keysyms.XK_e  [] c = 102 -> keysyms.XK_f  [] c = 103 -> keysyms.XK_g
      [] c = 104 -> keysyms.XK_h  [] c = 105 -> keysyms.XK_i  [] c = 106 -> keysyms.XK_j
      [] c = 107 -> keysyms.XK_k  [] c = 108 -> keysyms.XK_l  [] c = 109 -> keysyms.XK_m
      [] c = 110 -> keysyms.XK_n  [] c = 111 -> keysyms.XK_o  [] c = 112 -> keysyms.XK_p
      [] c = 113 -> keysyms.XK_q  [] c = 114 -> keysyms.XK_r  [] c = 115 -> keysyms.XK_s
      [] c = 116 -> keysyms.XK_t  [] c = 117 -> keysyms.XK_u  [] c = 118 -> keysyms.XK_v
      [] c = 119 -> keysyms.XK_w  [] c = 120 -> keysyms.XK_x  [] c = 121 -> keysyms.XK_y
      [] c = 122 -> keysyms.XK_z  [] c = 123 -> keysyms.XK_braceleft  [] c = 124 -> keysyms.XK_bar
      [] c = 125 -> keysyms.XK_braceright  [] c = 126 -> keysyms.XK_asciitilde ]

masks ==
  [ ShiftMask |-> 1, LockMask |-> 2, ControlMask |-> 4, Mod1Mask |-> 8,
    Mod2Mask |-> 16, Mod3Mask |-> 32, Mod4Mask |-> 64, Mod5Mask |-> 128 ]

\* The u32 operation a | b.
RECURSIVE BitOr(_, _)
BitOr(a, b) ==
  IF a = 0 THEN b
  ELSE IF b = 0 THEN a
  ELSE (IF a % 2 = 1 \/ b % 2 = 1 THEN 1 ELSE 0) + 2 * BitOr(a \div 2, b \div 2)

(* ------------------------------ key events ----------------------------- *)

\* crossterm KeyEvent: code is KeyCode::Char(c) (kind "Char", c the code
\* point), KeyCode::F(n) (kind "F", c = n) or a named key (c = 0).
KeyEv(kind, c, mods) == [code |-> [kind |-> kind, c |-> c], modifiers |-> mods]

NoKey == KeyEv("None", 0, {})

\* The value None of Option<(u32, u32, u32)>.
NoMapping == [some |-> FALSE, keysym |-> 0, keycode |-> 0, state |-> 0]

\* KeyState translating SUPER as well, to Mod4Mask.
KeyState_with_super(key_event) ==
  LET s0 == 0
      s1 == IF "SHIFT" \in key_event.modifiers THEN BitOr(s0, masks.ShiftMask) ELSE s0
      s2 == IF "CONTROL" \in key_event.modifiers THEN BitOr(s1, masks.ControlMask) ELSE s1
      s3 == IF "ALT" \in key_event.modifiers THEN BitOr(s2, masks.Mod1Mask) ELSE s2
      s4 == IF "SUPER" \in key_event.modifiers THEN BitOr(s3, masks.Mod4Mask) ELSE s3
  IN  s4

KeyState(key_event) ==
  LET s0 == 0
      s1 == IF "SHIFT" \in key_event.modifiers THEN BitOr(s0, masks.ShiftMask) ELSE s0
      s2 == IF "CONTROL" \in key_event.modifiers THEN BitOr(s1, masks.ControlMask) ELSE s1
      s3 == IF "ALT" \in key_event.modifiers THEN BitOr(s2, masks.Mod1Mask) ELSE s2
  IN  s3

\* The arms of the keysym match for characters (as in KeySym) and for the
\* nine named keys, with Left and Right as given; used by the variants below.
KeySymArms(code, left, right) ==
  CASE code.kind = "Char" ->
         [mapped |-> TRUE,
          keysym |-> IF code.c \in DOMAIN CharArms THEN CharArms[code.c] ELSE code.c]
    [] code.kind = "Backspace" -> [mapped |-> TRUE, keysym |-> keysyms.XK_BackSpace]
    [] code.kind = "Enter"     -> [mapped |-> TRUE, keysym |-> keysyms.XK_Return]
    [] code.kind = "Left"      -> [mapped |-> TRUE, keysym |-> left]
    [] code.kind = "Right"     -> [mapped |-> TRUE, keysym |-> right]
    [] code.kind = "Up"        -> [mapped |-> TRUE, keysym |-> keysyms.XK_Up]
    [] code.kind = "Down"      -> [mapped |-> TRUE, keysym |-> keysyms.XK_Down]
    [] code.kind = "Tab"       -> [mapped |-> TRUE, keysym |-> keysyms.XK_Tab]
    [] code.kind = "Delete"    -> [mapped |-> TRUE, keysym |-> keysyms.XK_Delete]
    [] code.kind = "Esc"       -> [mapped |-> TRUE, keysym |-> keysyms.XK_Escape]
    [] OTHER                   -> [mapped |-> FALSE, keysym |-> 0]

\* KeySym ignoring the characters that have no arm of their own.
KeySym_ascii_only(code) ==
  IF code.kind = "Char" /\ code.c \notin DOMAIN CharArms
  THEN [mapped |-> FALSE, keysym |-> 0]
  ELSE KeySymArms(code, keysyms.XK_Left, keysyms.XK_Right)

\* KeySym with the symbols of Left and Right exchanged.
KeySym_swaps_arrows(code) == KeySymArms(code, keysyms.XK_Right, keysyms.XK_Left)

\* KeySym with the commented-out arm KeyCode::Home => XK_Home (0xff50).
KeySym_maps_home(code) ==
  IF code.kind = "Home" THEN [mapped |-> TRUE, keysym |-> keysyms.XK_Left - 1]
  ELSE KeySymArms(code, keysyms.XK_Left, keysyms.XK_Right)

\* The keysym match of map_key_event_to_fcitx; 0 with mapped FALSE is the
\* early return None.
KeySym(code) ==
  CASE code.kind = "Char" ->
         [mapped |-> TRUE,
          keysym |-> IF code.c \in DOMAIN CharArms THEN CharArms[code.c] ELSE code.c]
    [] code.kind = "Backspace" -> [mapped |-> TRUE, keysym |-> keysyms.XK_BackSpace]
    [] code.kind = "Enter"     -> [mapped |-> TRUE, keysym |-> keysyms.XK_Return]
    [] code.kind = "Left"      -> [mapped |-> TRUE, keysym |-> keysyms.XK_Left]
    [] code.kind = "Right"     -> [mapped |-> TRUE, keysym |-> keysyms.XK_Right]
    [] code.kind = "Up"        -> [mapped |-> TRUE, keysym |-> keysyms.XK_Up]
    [] code.kind = "Down"      -> [mapped |-> TRUE, keysym |-> keysyms.XK_Down]
    [] code.kind = "Tab"       -> [mapped |-> TRUE, keysym |-> keysyms.XK_Tab]
    [] code.kind = "Delete"    -> [mapped |-> TRUE, keysym |-> keysyms.XK_Delete]
    [] code.kind = "Esc"       -> [mapped |-> TRUE, keysym |-> keysyms.XK_Escape]
    [] OTHER                   -> [mapped |-> FALSE, keysym |-> 0]

map_key_event_to_fcitx(key_event) ==
  LET state  == KeyState(key_event)
      sym    == KeySym(key_event.code)
      keycode == 0
  IN  IF sym.mapped
      THEN [some |-> TRUE, keysym |-> sym.keysym, keycode |-> keycode, state |-> state]
      ELSE NoMapping

(* ------------------------------- Session ------------------------------- *)

\* FcitxUpdate::CommitString(String) and FcitxUpdate::UpdatePreedit { text,
\* cursor_pos }, as records of one shape.
CommitString(str) == [type |-> "CommitString", text |-> str, cursor_pos |-> 0]

UpdatePreedit(text, cursor_pos) ==
  [type |-> "UpdatePreedit", text |-> text, cursor_pos |-> cursor_pos]

NoUpdate == [type |-> "None", text |-> <<>>, cursor_pos |-> 0]

\* AppState::new(): the empty Session.
AppState_new ==
  [preedit_string |-> <<>>, preedit_cursor_pos |-> 0, commit_string |-> <<>>]

Clamp(x, lo, hi) == IF x < lo THEN lo ELSE IF x > hi THEN hi ELSE x

\* apply_update storing the cursor as received (cast, not clamped).
apply_update_unclamped(s, update) ==
  IF update.type = "UpdatePreedit"
  THEN [preedit_string     |-> update.text,
        preedit_cursor_pos |-> update.cursor_pos,
        commit_string      |-> <<>>]
  ELSE [preedit_string     |-> <<>>,
        preedit_cursor_pos |-> 0,
        commit_string      |-> update.text]

\* apply_update leaving the preedit in place on a commit.
apply_update_keeps_preedit(s, update) ==
  IF update.type = "UpdatePreedit"
  THEN [preedit_string     |-> update.text,
        preedit_cursor_pos |-> Clamp(update.cursor_pos, 0, Len(update.text)),
        commit_string      |-> <<>>]
  ELSE [s EXCEPT !.commit_string = update.text]

\* apply_update appending a commit to the one still pending.
apply_update_appends_commit(s, update) ==
  IF update.type = "UpdatePreedit"
  THEN [preedit_string     |-> update.text,
        preedit_cursor_pos |-> Clamp(update.cursor_pos, 0, Len(update.text)),
        commit_string      |-> <<>>]
  ELSE [preedit_string     |-> <<>>,
        preedit_cursor_pos |-> 0,
        commit_string      |-> s.commit_string \o update.text]

\* apply_update leaving the pending commit in place on a preedit update.
apply_update_keeps_commit(s, update) ==
  IF update.type = "UpdatePreedit"
  THEN [preedit_string     |-> update.text,
        preedit_cursor_pos |-> Clamp(update.cursor_pos, 0, Len(update.text)),
        commit_string      |-> s.commit_string]
  ELSE [preedit_string     |-> <<>>,
        preedit_cursor_pos |-> 0,
        commit_string      |-> update.text]

\* apply_update adding to the Session without clearing its other half.
apply_update_merges(s, update) ==
  IF update.type = "UpdatePreedit"
  THEN [preedit_string     |-> update.text,
        preedit_cursor_pos |-> Clamp(update.cursor_pos, 0, Len(update.text)),
        commit_string      |-> s.commit_string]
  ELSE [preedit_string     |-> s.preedit_string,
        preedit_cursor_pos |-> s.preedit_cursor_pos,
        commit_string      |-> update.text]

\* AppState::apply_update: a preedit update clears the pending commit, stores
\* the text and the cursor clamped into [0, number of code points]; a commit
\* replaces the pending commit and clears the preedit.
apply_update(s, update) ==
  IF update.type = "UpdatePreedit"
  THEN [preedit_string     |-> update.text,
        preedit_cursor_pos |-> Clamp(update.cursor_pos, 0, Len(update.text)),
        commit_string      |-> <<>>]
  ELSE [preedit_string     |-> <<>>,
        preedit_cursor_pos |-> 0,
        commit_string      |-> update.text]

(* --------------------------- IME signal streams ------------------------ *)

\* One FormattedText segment of an UpdateFormattedPreedit signal.
FormattedText(text, format) == [text |-> text, format |-> format]

RECURSIVE ConcatSegments(_)
ConcatSegments(segs) ==
  IF segs = <<>> THEN <<>> ELSE Head(segs).text \o ConcatSegments(Tail(segs))

\* Items of the two signal streams: ok FALSE is Err(zbus::Error); seq is the
\* position of the signal in the order the IME emitted them.
CommitItem(ok, str, seq) == [ok |-> ok, str |-> str, seq |-> seq]

PreeditItem(ok, text, cursor_pos, seq) ==
  [ok |-> ok, text |-> text, cursor_pos |-> cursor_pos, seq |-> seq]

\* The closure mapped over commit_signal_stream in receive_updates.
commit_stream_map(item) ==
  IF item.ok
  THEN [ok |-> TRUE, update |-> CommitString(item.str), err |-> "", seq |-> item.seq]
  ELSE [ok |-> FALSE, update |-> NoUpdate, err |-> "Zbus", seq |-> item.seq]

\* The closure mapped over preedit_signal_stream in receive_updates: the
\* segment texts are concatenated, cursor_pos is passed on as received.
preedit_stream_map(item) ==
  IF item.ok
  THEN [ok |-> TRUE,
        update |-> UpdatePreedit(ConcatSegments(item.text), item.cursor_pos),
        err |-> "", seq |-> item.seq]
  ELSE [ok |-> FALSE, update |-> NoUpdate, err |-> "Zbus", seq |-> item.seq]

(* ------------------------------- rendering ----------------------------- *)

Min(a, b) == IF a < b THEN a ELSE b

Cell(ch, underlined) == [ch |-> ch, underlined |-> underlined]

RECURSIVE Cells(_, _)
Cells(text, underlined) ==
  IF text = <<>> THEN <<>>
  ELSE <<Cell(Head(text), underlined)>> \o Cells(Tail(text), underlined)

\* Print(text) at column col of line: the cells from col on are overwritten.
PrintAt(line, col, cells) ==
  SubSeq(line, 1, col) \o cells \o SubSeq(line, col + Len(cells) + 1, Len(line))

EmptyScreen == [line |-> <<>>, cursor |-> 0]

\* Terminal::render up to and including step `stage`:
\*   1 MoveToColumn(0) and Clear, 2 the underlined preedit, 3 MoveLeft,
\*   4 the commit string (5 is the flush, which paints nothing more).
render_upto(state, stage) ==
  LET preedit == state.preedit_string
      preedit_display_width == Len(preedit)
      width_to_cursor == Min(state.preedit_cursor_pos, Len(preedit))
      chars_to_move_left ==
        IF preedit_display_width > width_to_cursor
        THEN preedit_display_width - width_to_cursor ELSE 0
      s1 == EmptyScreen
      s2 == IF preedit /= <<>> /\ stage >= 2
            THEN [line |-> Cells(preedit, TRUE), cursor |-> preedit_display_width]
            ELSE s1
      s3 == IF preedit /= <<>> /\ stage >= 3
            THEN [s2 EXCEPT !.cursor = s2.cursor - chars_to_move_left]
            ELSE s2
      s4 == IF state.commit_string /= <<>> /\ stage >= 4
            THEN [line   |-> PrintAt(s3.line, s3.cursor, Cells(state.commit_string, FALSE)),
                  cursor |-> s3.cursor + Len(state.commit_string)]
            ELSE s3
  IN  s4

\* A render that returns Ok(()).
render(state) == render_upto(state, 4)

\* How a call of render ends: k in 0 .. 4 is an Err after k of its five steps
\* succeeded (the fifth is the flush); 5 is Ok(()).
RenderOutcomes == 0 .. 5

RenderOk(outcome) == outcome = 5

(* -------------------------------- inputs -------------------------------- *)

\* Key events of the terminal source: a character, a named key with a
\* mapping, the quit chord, a named key without a mapping.
KeyEvents ==
  { KeyEv("Char", 97, {}),
    KeyEv("Enter", 0, {}),
    KeyEv("Char", 99, {"CONTROL"}),
    KeyEv("Home", 0, {}) }

\* Arguments of the UpdateFormattedPreedit signals the IME emits: "a" with the
\* cursor after it, "ab" in two segments, and "\u3042a" with the cursor at
\* byte offset 3.
PreeditSignals ==
  { [text |-> << FormattedText(<<97>>, 1) >>, cursor_pos |-> 1],
    [text |-> << FormattedText(<<97>>, 1), FormattedText(<<98>>, 0) >>, cursor_pos |-> 2],
    [text |-> << FormattedText(<<12354, 97>>, 1) >>, cursor_pos |-> 3] }

\* Arguments of the CommitString signals the IME emits.
CommitSignals == { <<65, 66>> }

\* Results of a ProcessKeyEvent call: handled, not handled, a D-Bus error.
ForwardReplies == { "true", "false", "error" }

(* -------------------------------- state -------------------------------- *)

VARIABLES
  pc,              \* where main / run_event_loop stands
  raw_mode,        \* the terminal is in raw mode
  cursor_hidden,   \* the terminal cursor is hidden
  cleanup_count,   \* calls of Terminal::cleanup
  ic_proxy,        \* FcitxClient.ic_proxy is Some
  loop_result,     \* what run_event_loop returned
  exit_status,     \* what main returned
  setup,           \* the start-up calls main made, with their results
  ic_calls,        \* FocusIn / FocusOut calls sent to the input context
  app_state,       \* the Session (AppState)
  screen,          \* what the terminal shows
  render_count,    \* calls of Terminal::render
  key_stream,      \* key events read by the terminal, not yet taken
  term_closed,     \* the terminal input has ended
  keys_arrived,    \* items the terminal source has produced
  arrived,         \* those items, in arrival order
  commit_stream,   \* CommitString signals received, not yet taken
  preedit_stream,  \* UpdateFormattedPreedit signals received, not yet taken
  ime_closed,      \* the D-Bus connection has dropped
  signals_emitted, \* signals the IME has emitted
  pending_forward, \* the ProcessKeyEvent call awaiting its reply
  forwarded,       \* the ProcessKeyEvent calls made, in order
  applied,         \* the updates applied to the Session, in order
  before,          \* the Session before the update applied last
  last             \* the event run_event_loop handled last

vars ==
  << pc, raw_mode, cursor_hidden, cleanup_count, ic_proxy, loop_result,
     exit_status, setup, ic_calls, app_state, screen, render_count,
     key_stream, term_closed, keys_arrived, arrived, commit_stream, preedit_stream, ime_closed, signals_emitted,
     pending_forward, forwarded, applied, before, last >>

termVars == << raw_mode, cursor_hidden, cleanup_count >>

envVars ==
  << key_stream, term_closed, keys_arrived, arrived, commit_stream,
     preedit_stream, ime_closed, signals_emitted >>

\* The arguments of one ProcessKeyEvent call.
Call(keysym, keycode, state, is_release) ==
  [keysym |-> keysym, keycode |-> keycode, state |-> state,
   is_release |-> is_release, time |-> 0]

NoCall == Call(0, 0, 0, FALSE)

\* The event handled last: src is "term", "ime" or, for the two steps before
\* the loop, "start"; kind is "key", "update", "error" or "end" ("subscribe"
\* and "render" at start-up); seq is the emission number of an IME item.
\* reply is the state of the key's ProcessKeyEvent call: "none" (no call),
\* "pending", "true", "false" or "error".  rendered is the result of the
\* terminal.render call made for the event: "none" (no call), "ok" or "error".
Last(src, kind, key, update, seq, reply, rendered) ==
  [src |-> src, kind |-> kind, key |-> key, update |-> update, seq |-> seq,
   reply |-> reply, rendered |-> rendered]

NoEvent == Last("none", "none", NoKey, NoUpdate, 0, "none", "none")

Init ==
  /\ pc = "new"
  /\ raw_mode = FALSE
  /\ cursor_hidden = FALSE
  /\ cleanup_count = 0
  /\ ic_proxy = FALSE
  /\ loop_result = "none"
  /\ exit_status = "none"
  /\ setup = <<>>
  /\ ic_calls = <<>>
  /\ app_state = AppState_new
  /\ screen = EmptyScreen
  /\ render_count = 0
  /\ key_stream = <<>>
  /\ term_closed = FALSE
  /\ keys_arrived = 0
  /\ arrived = <<>>
  /\ commit_stream = <<>>
  /\ preedit_stream = <<>>
  /\ ime_closed = FALSE
  /\ signals_emitted = 0
  /\ pending_forward = NoCall
  /\ forwarded = <<>>
  /\ applied = <<>>
  /\ before = AppState_new
  /\ last = NoEvent

(* --------------------------------- main --------------------------------- *)

\* Terminal::cleanup, run by Drop for Terminal: show the cursor, leave raw
\* mode.
TerminalCleanup ==
  /\ cleanup_count' = cleanup_count + 1
  /\ cursor_hidden' = FALSE
  /\ raw_mode' = FALSE

\* main returns: the locals are dropped, fcitx_client first, then terminal.
\* Drop for FcitxClient only prints: nothing is sent to the input context.
MainReturn(status) ==
  /\ pc' = "exited"
  /\ exit_status' = status
  /\ ic_proxy' = FALSE
  /\ UNCHANGED ic_calls
  /\ TerminalCleanup

\* TerminalNew going on to connect although hiding the cursor failed.
TerminalNew_ignores_failure(outcome) ==
  /\ pc = "new"
  /\ IF outcome = "raw_failed"
     THEN /\ raw_mode' = FALSE
          /\ UNCHANGED cursor_hidden
          /\ pc' = "exited"
          /\ exit_status' = "failure"
     ELSE /\ raw_mode' = TRUE
          /\ cursor_hidden' = (outcome = "ok")
          /\ pc' = "connect"
          /\ UNCHANGED exit_status
  /\ setup' = Append(setup, IF outcome = "ok" THEN "Terminal::new: Ok"
                            ELSE "Terminal::new: Err")
  /\ UNCHANGED << cleanup_count, ic_proxy, ic_calls, loop_result, app_state,
                  screen, render_count, envVars, pending_forward, forwarded,
                  applied, before, last >>

\* Terminal::new and main's handling of its failure.  outcome: "raw_failed"
\* (enable_raw_mode fails), "hide_failed" (raw mode is on, hiding the cursor
\* fails) or "ok".  On a failure no Terminal exists, main calls
\* disable_raw_mode itself and returns the error.
TerminalNew(outcome) ==
  /\ pc = "new"
  /\ IF outcome = "ok"
     THEN /\ raw_mode' = TRUE
          /\ cursor_hidden' = TRUE
          /\ pc' = "connect"
          /\ UNCHANGED exit_status
     ELSE /\ raw_mode' = FALSE
          /\ UNCHANGED cursor_hidden
          /\ pc' = "exited"
          /\ exit_status' = "failure"
  /\ setup' = Append(setup, IF outcome = "ok" THEN "Terminal::new: Ok"
                            ELSE "Terminal::new: Err")
  /\ UNCHANGED << cleanup_count, ic_proxy, ic_calls, loop_result, app_state, screen,
                  render_count, envVars, pending_forward, forwarded, applied, before, last >>

\* FcitxClient::connect and main's handling of its failure; on success main
\* creates the AppState and starts run_event_loop, which creates the key
\* stream and awaits receive_updates.  connect ends by sending FocusIn.
FcitxConnect(ok) ==
  /\ pc = "connect"
  /\ IF ok
     THEN /\ ic_proxy' = TRUE
          /\ app_state' = AppState_new
          /\ pc' = "receive_updates"
          /\ ic_calls' = Append(ic_calls, "FocusIn")
          /\ UNCHANGED << termVars, exit_status >>
     ELSE /\ MainReturn("failure")
          /\ UNCHANGED app_state
  /\ setup' = Append(setup, IF ok THEN "FcitxClient::connect: Ok"
                            ELSE "FcitxClient::connect: Err")
  /\ UNCHANGED << loop_result, screen, render_count, envVars, pending_forward,
                  forwarded, applied, before, last >>

\* The points at which run_event_loop is suspended in an await.
AwaitPoints == { "receive_updates", "select", "forward" }

\* The ctrl_c branch of main's select!: the run_event_loop future is dropped
\* where it is suspended and main returns Ok(()).
SigInt ==
  /\ pc \in AwaitPoints
  /\ MainReturn("success")
  /\ UNCHANGED << setup, loop_result, app_state, screen, render_count, envVars,
                  pending_forward, forwarded, applied, before, last >>

\* The points of main before its select!: tokio::signal::ctrl_c() has not been
\* called yet, so SIGINT still has its default disposition.
StartupPoints == { "new", "connect" }

\* A SIGINT before main's select!: the process is terminated by the signal,
\* no destructor runs.
SigIntUnhandled ==
  /\ pc \in StartupPoints
  /\ pc' = "exited"
  /\ exit_status' = "killed"
  /\ UNCHANGED << termVars, ic_proxy, setup, ic_calls, loop_result, app_state,
                  screen, render_count, envVars, pending_forward, forwarded,
                  applied, before, last >>

\* MainExit ending the process without unwinding: no Drop runs.
MainExit_no_unwind ==
  /\ pc = "returned"
  /\ pc' = "exited"
  /\ exit_status' = IF loop_result = "Ok" THEN "success" ELSE "failure"
  /\ UNCHANGED << termVars, ic_proxy, setup, ic_calls, loop_result, app_state,
                  screen, render_count, envVars, pending_forward, forwarded,
                  applied, before, last >>

\* The run_event_loop branch of main's select!: an Err is returned by main,
\* an Ok falls through to the final Ok(()); the call of disconnect before it
\* is commented out.
MainExit ==
  /\ pc = "returned"
  /\ MainReturn(IF loop_result = "Ok" THEN "success" ELSE "failure")
  /\ UNCHANGED << setup, loop_result, app_state, screen, render_count, envVars,
                  pending_forward, forwarded, applied, before, last >>

(* ----------------------------- environment ----------------------------- *)

\* The terminal reads a key event (or fails to read one).
TermInput(ok, key) ==
  /\ pc \in AwaitPoints
  /\ ~term_closed
  /\ keys_arrived + signals_emitted < MaxEvents
  /\ key_stream' = Append(key_stream, [ok |-> ok, key |-> key])
  /\ keys_arrived' = keys_arrived + 1
  /\ arrived' = Append(arrived, [ok |-> ok, key |-> key])
  /\ UNCHANGED << pc, termVars, ic_proxy, loop_result, exit_status, setup, ic_calls, app_state,
                  screen, render_count, term_closed, commit_stream,
                  preedit_stream, ime_closed, signals_emitted, pending_forward,
                  forwarded, applied, before, last >>

\* The terminal input ends.
TermClose ==
  /\ pc \in AwaitPoints
  /\ ~term_closed
  /\ term_closed' = TRUE
  /\ UNCHANGED << pc, termVars, ic_proxy, loop_result, exit_status, setup, ic_calls, app_state,
                  screen, render_count, key_stream, keys_arrived, arrived, commit_stream,
                  preedit_stream, ime_closed, signals_emitted, pending_forward,
                  forwarded, applied, before, last >>

\* The subscription of receive_updates exists.
Subscribed == pc \in { "select", "forward" }

\* The IME emits a CommitString signal (ok FALSE: one that cannot be decoded).
ImeEmitCommit(ok, str) ==
  /\ Subscribed
  /\ ~ime_closed
  /\ keys_arrived + signals_emitted < MaxEvents
  /\ commit_stream' = Append(commit_stream, CommitItem(ok, str, signals_emitted + 1))
  /\ signals_emitted' = signals_emitted + 1
  /\ UNCHANGED << pc, termVars, ic_proxy, loop_result, exit_status, setup, ic_calls, app_state,
                  screen, render_count, key_stream, term_closed, keys_arrived, arrived,
                  preedit_stream, ime_closed, pending_forward, forwarded,
                  applied, before, last >>

\* The IME emits an UpdateFormattedPreedit signal.
ImeEmitPreedit(ok, args) ==
  /\ Subscribed
  /\ ~ime_closed
  /\ keys_arrived + signals_emitted < MaxEvents
  /\ preedit_stream' =
       Append(preedit_stream,
              PreeditItem(ok, args.text, args.cursor_pos, signals_emitted + 1))
  /\ signals_emitted' = signals_emitted + 1
  /\ UNCHANGED << pc, termVars, ic_proxy, loop_result, exit_status, setup, ic_calls, app_state,
                  screen, render_count, key_stream, term_closed, keys_arrived, arrived,
                  commit_stream, ime_closed, pending_forward, forwarded,
                  applied, before, last >>

\* The D-Bus connection drops: both signal streams end.
ImeDrop ==
  /\ Subscribed
  /\ ~ime_closed
  /\ ime_closed' = TRUE
  /\ UNCHANGED << pc, termVars, ic_proxy, loop_result, exit_status, setup, ic_calls, app_state,
                  screen, render_count, key_stream, term_closed, keys_arrived, arrived,
                  commit_stream, preedit_stream, signals_emitted,
                  pending_forward, forwarded, applied, before, last >>

(* ---------------------------- run_event_loop --------------------------- *)

ErrIo == "Err(Io)"

ErrZbus == "Err(Zbus)"

ErrStreamEnded == "Err(FcitxConnection(Fcitx update stream unexpectedly ended))"

ErrNoProxy == "Err(FcitxConnection(Input context proxy not available))"

ErrNoProxySignals ==
  "Err(FcitxConnection(Input context proxy not available for signals))"

\* run_event_loop returns result.
Return(result) ==
  /\ pc' = "returned"
  /\ loop_result' = result

\* terminal.render(app_state)? on the Session st.
Render(st, outcome) ==
  /\ render_count' = render_count + 1
  /\ screen' = IF outcome = 0 THEN screen ELSE render_upto(st, Min(outcome, 4))

\* receive_updates followed at once by the select loop, without the initial
\* render.
ReceiveUpdates_skips_render(ok) ==
  /\ pc = "receive_updates"
  /\ IF ~ic_proxy THEN Return(ErrNoProxySignals)
     ELSE IF ok THEN pc' = "select" /\ UNCHANGED loop_result
     ELSE Return(ErrZbus)
  /\ last' = Last("start", IF ic_proxy /\ ok THEN "subscribe" ELSE "error",
                  NoKey, NoUpdate, 0, "none", "none")
  /\ UNCHANGED << termVars, ic_proxy, exit_status, setup, ic_calls, app_state, screen,
                  render_count, envVars, pending_forward, forwarded, applied,
                  before >>

\* fcitx_client.receive_updates().await?: the two signal subscriptions.
ReceiveUpdates(ok) ==
  /\ pc = "receive_updates"
  /\ IF ~ic_proxy THEN Return(ErrNoProxySignals)
     ELSE IF ok THEN pc' = "initial_render" /\ UNCHANGED loop_result
     ELSE Return(ErrZbus)
  /\ last' = Last("start", IF ic_proxy /\ ok THEN "subscribe" ELSE "error",
                  NoKey, NoUpdate, 0, "none", "none")
  /\ UNCHANGED << termVars, ic_proxy, exit_status, setup, ic_calls, app_state, screen,
                  render_count, envVars, pending_forward, forwarded, applied,
                  before >>

\* The initial render of the empty state.
InitialRender(outcome) ==
  /\ pc = "initial_render"
  /\ Render(app_state, outcome)
  /\ IF RenderOk(outcome) THEN pc' = "select" /\ UNCHANGED loop_result
     ELSE Return(ErrIo)
  /\ last' = Last("start", "render", NoKey, NoUpdate, 0, "none",
                  IF RenderOk(outcome) THEN "ok" ELSE "error")
  /\ UNCHANGED << termVars, ic_proxy, exit_status, setup, ic_calls, app_state, envVars,
                  pending_forward, forwarded, applied, before >>

\* IsQuitChord testing for the upper-case letter.
IsQuitChord_uppercase(key_event) ==
  /\ key_event.code = [kind |-> "Char", c |-> 67]
  /\ "CONTROL" \in key_event.modifiers

\* The quit test of run_event_loop: code == Char('c') and CONTROL held.
\* The quit test looking for the control character ETX instead of the chord.
IsQuitChord_etx(key_event) ==
  key_event.code = [kind |-> "Char", c |-> 3]

IsQuitChord(key_event) ==
  /\ key_event.code = [kind |-> "Char", c |-> 99]
  /\ "CONTROL" \in key_event.modifiers

\* KeyEventDispatch forwarding a key without a mapping as keysym 0.
KeyEventDispatch_forwards_unmapped(key_event) ==
  LET m == map_key_event_to_fcitx(key_event)
      call == Call(m.keysym, m.keycode, KeyState(key_event), FALSE)
  IN  IF IsQuitChord(key_event)
      THEN /\ Return("Ok")
           /\ last' = Last("term", "key", key_event, NoUpdate, 0, "none", "none")
           /\ UNCHANGED << pending_forward, forwarded >>
      ELSE /\ pc' = "forward"
           /\ pending_forward' = call
           /\ forwarded' = Append(forwarded, call)
           /\ last' = Last("term", "key", key_event, NoUpdate, 0, "pending", "none")
           /\ UNCHANGED loop_result

\* KeyEventDispatch sending the key as a release, with the keysym as keycode.
KeyEventDispatch_sends_release(key_event) ==
  LET m == map_key_event_to_fcitx(key_event)
      call == Call(m.keysym, m.keysym, m.state, TRUE)
  IN  IF IsQuitChord(key_event)
      THEN /\ Return("Ok")
           /\ last' = Last("term", "key", key_event, NoUpdate, 0, "none", "none")
           /\ UNCHANGED << pending_forward, forwarded >>
      ELSE IF m.some
      THEN /\ pc' = "forward"
           /\ pending_forward' = call
           /\ forwarded' = Append(forwarded, call)
           /\ last' = Last("term", "key", key_event, NoUpdate, 0, "pending", "none")
           /\ UNCHANGED loop_result
      ELSE /\ last' = Last("term", "key", key_event, NoUpdate, 0, "none", "none")
           /\ UNCHANGED << pc, loop_result, pending_forward, forwarded >>

\* Some(Ok(key_event)) on the terminal branch: the quit chord breaks out of
\* the loop; a mapped key is forwarded (forward_key_event sends the call, or
\* fails at once without a proxy); an unmapped key is ignored.
KeyEventDispatch(key_event) ==
  LET m == map_key_event_to_fcitx(key_event)
      call == Call(m.keysym, m.keycode, m.state, FALSE)
  IN  IF IsQuitChord(key_event)
      THEN /\ Return("Ok")
           /\ last' = Last("term", "key", key_event, NoUpdate, 0, "none", "none")
           /\ UNCHANGED << pending_forward, forwarded >>
      ELSE IF m.some
      THEN IF ic_proxy
           THEN /\ pc' = "forward"
                /\ pending_forward' = call
                /\ forwarded' = Append(forwarded, call)
                /\ last' = Last("term", "key", key_event, NoUpdate, 0, "pending", "none")
                /\ UNCHANGED loop_result
           ELSE /\ Return(ErrNoProxy)
                /\ last' = Last("term", "key", key_event, NoUpdate, 0, "error", "none")
                /\ UNCHANGED << pending_forward, forwarded >>
      ELSE /\ last' = Last("term", "key", key_event, NoUpdate, 0, "none", "none")
           /\ UNCHANGED << pc, loop_result, pending_forward, forwarded >>

\* HandleKeyEvent redrawing the Session after every key.
HandleKeyEvent_renders(key_event) ==
  /\ KeyEventDispatch(key_event)
  /\ Render(app_state, 5)
  /\ UNCHANGED << app_state, applied, before >>

\* The Some(Ok(key_event)) arm as a whole: neither the Session nor the screen
\* is touched.
HandleKeyEvent(key_event) ==
  /\ KeyEventDispatch(key_event)
  /\ UNCHANGED << app_state, screen, render_count, applied, before >>

\* HandleKeyError leaving the loop with a break, as for the end of input.
HandleKeyError_breaks ==
  /\ Return("Ok")
  /\ last' = Last("term", "error", NoKey, NoUpdate, 0, "none", "none")
  /\ UNCHANGED << pending_forward, forwarded, app_state, screen, render_count,
                  applied, before >>

\* Some(Err(e)) on the terminal branch.
HandleKeyError ==
  /\ Return(ErrIo)
  /\ last' = Last("term", "error", NoKey, NoUpdate, 0, "none", "none")
  /\ UNCHANGED << pending_forward, forwarded, app_state, screen, render_count,
                  applied, before >>

\* HandleKeyEnd reporting the end of the terminal input as an I/O error.
HandleKeyEnd_fails ==
  /\ Return(ErrIo)
  /\ last' = Last("term", "end", NoKey, NoUpdate, 0, "none", "none")
  /\ UNCHANGED << pending_forward, forwarded, app_state, screen, render_count,
                  applied, before >>

\* None on the terminal branch: the loop is left normally.
HandleKeyEnd ==
  /\ Return("Ok")
  /\ last' = Last("term", "end", NoKey, NoUpdate, 0, "none", "none")
  /\ UNCHANGED << pending_forward, forwarded, app_state, screen, render_count,
                  applied, before >>

\* TakeKey taking the key event that arrived last.
TakeKey_takes_latest ==
  /\ pc = "select"
  /\ key_stream /= <<>> \/ term_closed
  /\ IF key_stream = <<>>
     THEN HandleKeyEnd /\ UNCHANGED key_stream
     ELSE /\ key_stream' = SubSeq(key_stream, 1, Len(key_stream) - 1)
          /\ IF key_stream[Len(key_stream)].ok
             THEN HandleKeyEvent(key_stream[Len(key_stream)].key)
             ELSE HandleKeyError
  /\ UNCHANGED << termVars, ic_proxy, exit_status, setup, ic_calls, term_closed, keys_arrived,
                  arrived, commit_stream, preedit_stream, ime_closed,
                  signals_emitted >>

\* Branch 1 of select!: key_stream.next() is ready.
TakeKey ==
  /\ pc = "select"
  /\ key_stream /= <<>> \/ term_closed
  /\ IF key_stream = <<>>
     THEN HandleKeyEnd /\ UNCHANGED key_stream
     ELSE /\ key_stream' = Tail(key_stream)
          /\ IF Head(key_stream).ok
             THEN HandleKeyEvent(Head(key_stream).key)
             ELSE HandleKeyError
  /\ UNCHANGED << termVars, ic_proxy, exit_status, setup, ic_calls, term_closed, keys_arrived, arrived,
                  commit_stream, preedit_stream, ime_closed, signals_emitted >>

\* HandleForwardReply inserting a key the IME did not handle as committed
\* text.
HandleForwardReply_inserts(reply) ==
  /\ IF reply = "error" THEN Return(ErrZbus)
     ELSE pc' = "select" /\ UNCHANGED loop_result
  /\ pending_forward' = NoCall
  /\ last' = [last EXCEPT !.reply = reply]
  /\ app_state' = IF reply = "false"
                  THEN [app_state EXCEPT !.commit_string = << last.key.code.c >>]
                  ELSE app_state
  /\ UNCHANGED << forwarded, screen, render_count, applied, before >>

\* HandleForwardReply treating "not handled" as a failure of the call.
HandleForwardReply_false_fails(reply) ==
  /\ IF reply = "true" THEN pc' = "select" /\ UNCHANGED loop_result
     ELSE Return(ErrZbus)
  /\ pending_forward' = NoCall
  /\ last' = [last EXCEPT !.reply = reply]
  /\ UNCHANGED << forwarded, app_state, screen, render_count, applied, before >>

\* The reply of the ProcessKeyEvent call: Ok(handled) goes back to the select,
\* an error is returned.
HandleForwardReply(reply) ==
  /\ IF reply = "error" THEN Return(ErrZbus)
     ELSE pc' = "select" /\ UNCHANGED loop_result
  /\ pending_forward' = NoCall
  /\ last' = [last EXCEPT !.reply = reply]
  /\ UNCHANGED << forwarded, app_state, screen, render_count, applied, before >>

ForwardReply(reply) ==
  /\ pc = "forward"
  /\ HandleForwardReply(reply)
  /\ UNCHANGED << termVars, ic_proxy, exit_status, setup, ic_calls, envVars >>

\* HandleUpdate rendering the Session first and applying the update after.
HandleUpdate_renders_first(update, seq, outcome) ==
  /\ Render(app_state, outcome)
  /\ app_state' = apply_update(app_state, update)
  /\ applied' = Append(applied, [update |-> update, seq |-> seq])
  /\ before' = app_state
  /\ IF RenderOk(outcome) THEN UNCHANGED << pc, loop_result >> ELSE Return(ErrIo)
  /\ last' = Last("ime", "update", NoKey, update, seq, "none",
                  IF RenderOk(outcome) THEN "ok" ELSE "error")
  /\ UNCHANGED << pending_forward, forwarded >>

\* Some(Ok(update)) on the IME branch: apply, then render.
HandleUpdate(update, seq, outcome) ==
  /\ app_state' = apply_update(app_state, update)
  /\ applied' = Append(applied, [update |-> update, seq |-> seq])
  /\ before' = app_state
  /\ Render(apply_update(app_state, update), outcome)
  /\ IF RenderOk(outcome) THEN UNCHANGED << pc, loop_result >> ELSE Return(ErrIo)
  /\ last' = Last("ime", "update", NoKey, update, seq, "none",
                  IF RenderOk(outcome) THEN "ok" ELSE "error")
  /\ UNCHANGED << pending_forward, forwarded >>

\* HandleUpdateError logging the bad signal and staying in the loop.
HandleUpdateError_continues(seq) ==
  /\ last' = Last("ime", "error", NoKey, NoUpdate, seq, "none", "none")
  /\ UNCHANGED << pc, loop_result, pending_forward, forwarded, app_state,
                  screen, render_count, applied, before >>

\* Some(Err(e)) on the IME branch.
HandleUpdateError(seq) ==
  /\ Return(ErrZbus)
  /\ last' = Last("ime", "error", NoKey, NoUpdate, seq, "none", "none")
  /\ UNCHANGED << pending_forward, forwarded, app_state, screen, render_count,
                  applied, before >>

\* HandleUpdateEnd leaving the loop with a break.
HandleUpdateEnd_breaks ==
  /\ Return("Ok")
  /\ last' = Last("ime", "end", NoKey, NoUpdate, 0, "none", "none")
  /\ UNCHANGED << pending_forward, forwarded, app_state, screen, render_count,
                  applied, before >>

\* None on the IME branch: the connection is lost.
HandleUpdateEnd ==
  /\ Return(ErrStreamEnded)
  /\ last' = Last("ime", "end", NoKey, NoUpdate, 0, "none", "none")
  /\ UNCHANGED << pending_forward, forwarded, app_state, screen, render_count,
                  applied, before >>

HandleUpdateItem(item, outcome) ==
  IF item.ok THEN HandleUpdate(item.update, item.seq, outcome)
  ELSE outcome = 5 /\ HandleUpdateError(item.seq)

\* TakeUpdate with the terminal branch given priority (a biased select!): an
\* update is taken only when no terminal item is ready.
TakeUpdate_after_keys(from, outcome) ==
  /\ pc = "select"
  /\ key_stream = <<>> /\ ~term_closed
  /\ CASE from = "commit" ->
            /\ commit_stream /= <<>>
            /\ commit_stream' = Tail(commit_stream)
            /\ HandleUpdateItem(commit_stream_map(Head(commit_stream)), outcome)
            /\ UNCHANGED preedit_stream
       [] from = "preedit" ->
            /\ preedit_stream /= <<>>
            /\ preedit_stream' = Tail(preedit_stream)
            /\ HandleUpdateItem(preedit_stream_map(Head(preedit_stream)), outcome)
            /\ UNCHANGED commit_stream
       [] OTHER ->
            /\ commit_stream = <<>> /\ preedit_stream = <<>> /\ ime_closed
            /\ outcome = 5
            /\ HandleUpdateEnd
            /\ UNCHANGED << commit_stream, preedit_stream >>
  /\ UNCHANGED << termVars, ic_proxy, exit_status, setup, ic_calls, key_stream, term_closed,
                  keys_arrived, arrived, ime_closed, signals_emitted >>

\* TakeUpdate polled while a ProcessKeyEvent call awaits its reply, as if the
\* call were spawned instead of awaited.
TakeUpdate_during_forward(from, outcome) ==
  /\ pc \in { "select", "forward" }
  /\ CASE from = "commit" ->
            /\ commit_stream /= <<>>
            /\ commit_stream' = Tail(commit_stream)
            /\ HandleUpdateItem(commit_stream_map(Head(commit_stream)), outcome)
            /\ UNCHANGED preedit_stream
       [] from = "preedit" ->
            /\ preedit_stream /= <<>>
            /\ preedit_stream' = Tail(preedit_stream)
            /\ HandleUpdateItem(preedit_stream_map(Head(preedit_stream)), outcome)
            /\ UNCHANGED commit_stream
       [] OTHER ->
            /\ commit_stream = <<>> /\ preedit_stream = <<>> /\ ime_closed
            /\ outcome = 5
            /\ HandleUpdateEnd
            /\ UNCHANGED << commit_stream, preedit_stream >>
  /\ UNCHANGED << termVars, ic_proxy, exit_status, setup, ic_calls, key_stream, term_closed,
                  keys_arrived, arrived, ime_closed, signals_emitted >>

\* Branch 2 of select!: fcitx_updates.next() is ready.  The merged stream
\* yields the head of either signal stream, and None once both have ended.
TakeUpdate(from, outcome) ==
  /\ pc = "select"
  /\ CASE from = "commit" ->
            /\ commit_stream /= <<>>
            /\ commit_stream' = Tail(commit_stream)
            /\ HandleUpdateItem(commit_stream_map(Head(commit_stream)), outcome)
            /\ UNCHANGED preedit_stream
       [] from = "preedit" ->
            /\ preedit_stream /= <<>>
            /\ preedit_stream' = Tail(preedit_stream)
            /\ HandleUpdateItem(preedit_stream_map(Head(preedit_stream)), outcome)
            /\ UNCHANGED commit_stream
       [] OTHER ->
            /\ commit_stream = <<>> /\ preedit_stream = <<>> /\ ime_closed
            /\ outcome = 5
            /\ HandleUpdateEnd
            /\ UNCHANGED << commit_stream, preedit_stream >>
  /\ UNCHANGED << termVars, ic_proxy, exit_status, setup, ic_calls, key_stream, term_closed,
                  keys_arrived, arrived, ime_closed, signals_emitted >>

(* ---------------------------- specification ---------------------------- *)

Next ==
  \/ \E outcome \in { "ok", "raw_failed", "hide_failed" } : TerminalNew(outcome)
  \/ \E ok \in BOOLEAN : FcitxConnect(ok)
  \/ \E ok \in BOOLEAN : ReceiveUpdates(ok)
  \/ \E outcome \in RenderOutcomes : InitialRender(outcome)
  \/ \E key \in KeyEvents : TermInput(TRUE, key)
  \/ TermInput(FALSE, NoKey)
  \/ TermClose
  \/ \E str \in CommitSignals : ImeEmitCommit(TRUE, str)
  \/ ImeEmitCommit(FALSE, <<>>)
  \/ \E args \in PreeditSignals : ImeEmitPreedit(TRUE, args)
  \/ ImeEmitPreedit(FALSE, [text |-> <<>>, cursor_pos |-> 0])
  \/ ImeDrop
  \/ TakeKey
  \/ \E reply \in ForwardReplies : ForwardReply(reply)
  \/ \E from \in { "commit", "preedit", "end" }, outcome \in RenderOutcomes :
       TakeUpdate(from, outcome)
  \/ SigInt
  \/ SigIntUnhandled
  \/ MainExit

Spec == Init /\ [][Next]_vars

\* Each loop iteration's select! polls its two branches in a random order, so
\* a branch that is ready again and again is eventually taken.  Nothing is
\* assumed of the environment: the IME may never answer a call.
FairSpec ==
  /\ Init /\ [][Next]_vars
  /\ SF_vars(TakeKey)
  /\ SF_vars(\E from \in { "commit", "preedit", "end" }, outcome \in RenderOutcomes :
               TakeUpdate(from, outcome))

(* ----------------- the Session contract on its own ---------------------- *)

\* Code points of the texts: 'a' (one byte in UTF-8) and U+3042 (three).
Chars == { 97, 12354 }

Texts == UNION { [1 .. n -> Chars] : n \in 0 .. MaxLen }

\* Cursor offsets as the signal's i32 carries them: negative and past the
\* end of the text included.
Cursors == -2 .. MaxCursor

SessionUpdates ==
  { UpdatePreedit(t, c) : t \in Texts, c \in Cursors } \cup
  { CommitString(t) : t \in Texts }

\* The dispatcher waiting in its select! after start-up, the Session empty.
InitSession ==
  /\ pc = "select"
  /\ raw_mode = TRUE
  /\ cursor_hidden = TRUE
  /\ cleanup_count = 0
  /\ ic_proxy = TRUE
  /\ loop_result = "none"
  /\ exit_status = "none"
  /\ setup = << "Terminal::new: Ok", "FcitxClient::connect: Ok" >>
  /\ ic_calls = << "FocusIn" >>
  /\ app_state = AppState_new
  /\ screen = EmptyScreen
  /\ render_count = 1
  /\ key_stream = <<>>
  /\ term_closed = FALSE
  /\ keys_arrived = 0
  /\ arrived = <<>>
  /\ commit_stream = <<>>
  /\ preedit_stream = <<>>
  /\ ime_closed = FALSE
  /\ signals_emitted = 0
  /\ pending_forward = NoCall
  /\ forwarded = <<>>
  /\ applied = <<>>
  /\ before = AppState_new
  /\ last = NoEvent

\* One call app_state.apply_update(update).
SessionApply(update) ==
  /\ app_state' = apply_update(app_state, update)
  /\ before' = app_state
  /\ last' = Last("ime", "update", NoKey, update, 0, "none", "none")
  /\ UNCHANGED << pc, termVars, ic_proxy, loop_result, exit_status, setup, ic_calls, screen,
                  render_count, envVars, pending_forward, forwarded, applied >>

NextSession == \E update \in SessionUpdates : SessionApply(update)

SpecSession == InitSession /\ [][NextSession]_vars

(* -------------------------- the key mapper alone ------------------------ *)

\* The named keys map_key_event_to_fcitx has an arm for.
MappedNames ==
  { "Backspace", "Enter", "Left", "Right", "Up", "Down", "Tab", "Delete", "Esc" }

\* Named KeyCode variants it has no arm for.
UnmappedNames ==
  { "Home", "End", "PageUp", "PageDown", "Insert", "BackTab", "Null",
    "CapsLock", "ScrollLock", "NumLock", "PrintScreen", "Pause", "Menu",
    "KeypadBegin", "Media", "Modifier" }

\* Numbers n of KeyCode::F(n).
FNumbers == { 1, 12, 24 }

\* Characters of KeyCode::Char: the printable ASCII range, control and
\* Latin-1 characters, \u3042, the fullwidth forms U+FF08, U+FF09, U+FF0D,
\* U+FF1B, U+FF50 .. U+FF54, U+FFFD, U+FFFF, and the ends of the two ranges
\* of char around the surrogates.
CodePoints ==
  (32 .. 126) \cup
  { 0, 9, 13, 27, 31, 127, 128, 233, 255, 256, 12354, 55295, 57344,
    65288, 65289, 65293, 65307, 65360, 65361, 65362, 65363, 65364, 65533,
    65535, 65536, 1114111 }

\* The flags of crossterm's KeyModifiers.
Modifiers == { "SHIFT", "CONTROL", "ALT", "SUPER", "HYPER", "META" }

AllKeyEvents ==
  { KeyEv("Char", c, mods) : c \in CodePoints, mods \in SUBSET Modifiers } \cup
  { KeyEv(name, 0, mods) : name \in MappedNames \cup UnmappedNames,
                           mods \in SUBSET Modifiers } \cup
  { KeyEv("F", n, mods) : n \in FNumbers, mods \in SUBSET Modifiers }

\* The dispatcher waiting in its select! after start-up with one key event,
\* any of AllKeyEvents, ready on the terminal stream.
InitKeys ==
  /\ pc = "select"
  /\ raw_mode = TRUE
  /\ cursor_hidden = TRUE
  /\ cleanup_count = 0
  /\ ic_proxy = TRUE
  /\ loop_result = "none"
  /\ exit_status = "none"
  /\ setup = << "Terminal::new: Ok", "FcitxClient::connect: Ok" >>
  /\ ic_calls = << "FocusIn" >>
  /\ app_state = AppState_new
  /\ screen = EmptyScreen
  /\ render_count = 1
  /\ \E key \in AllKeyEvents :
       /\ key_stream = << [ok |-> TRUE, key |-> key] >>
       /\ arrived = << [ok |-> TRUE, key |-> key] >>
  /\ term_closed = FALSE
  /\ keys_arrived = 1
  /\ commit_stream = <<>>
  /\ preedit_stream = <<>>
  /\ ime_closed = FALSE
  /\ signals_emitted = 0
  /\ pending_forward = NoCall
  /\ forwarded = <<>>
  /\ applied = <<>>
  /\ before = AppState_new
  /\ last = NoEvent

\* The key event is taken, mapped and forwarded, and the call is answered.
NextKeys == TakeKey \/ \E reply \in ForwardReplies : ForwardReply(reply)

SpecKeys == InitKeys /\ [][NextKeys]_vars

(* ------------------------------- claims -------------------------------- *)

LastIsPreedit == last.kind = "update" /\ last.update.type = "UpdatePreedit"

LastIsCommit == last.kind = "update" /\ last.update.type = "CommitString"

\* C1: after every applyUpdate call, whatever cursor value the update carried
\* (negative, past the end of the text), the stored cursor is a valid index:
\* 0 <= cursor <= number of code points of the preedit text.
C1_CursorClampInvariant ==
  /\ 0 <= app_state.preedit_cursor_pos
  /\ app_state.preedit_cursor_pos <= Len(app_state.preedit_string)

\* A preedit update whose cursor lies past the end of a non-empty text was
\* applied after one whose cursor was in range.
C1_Witness ==
  /\ LastIsPreedit
  /\ last.update.text /= <<>>
  /\ last.update.cursor_pos > Len(last.update.text)
  /\ before.preedit_cursor_pos > 0
  /\ app_state.preedit_string = last.update.text

\* C2: immediately after applyUpdate(CommitEvent), from any Session state, the
\* preedit text is empty and the preedit cursor is 0.
C2_CommitClearsPreedit ==
  LastIsCommit =>
    /\ app_state.preedit_string = <<>>
    /\ app_state.preedit_cursor_pos = 0

\* A commit was applied to a Session that held a preedit with its cursor
\* inside the text.
C2_Witness ==
  /\ LastIsCommit
  /\ before.preedit_string /= <<>>
  /\ before.preedit_cursor_pos > 0

\* C3: after applyUpdate(CommitEvent{text: t}) the pending commit is exactly
\* t: a commit that was still pending is discarded, not concatenated or kept.
C3_CommitReplacesPending ==
  LastIsCommit => app_state.commit_string = last.update.text

\* A commit was applied while a different commit was still pending.
C3_Witness ==
  /\ LastIsCommit
  /\ before.commit_string /= <<>>
  /\ last.update.text /= <<>>
  /\ before.commit_string /= last.update.text

\* C4: after applyUpdate(PreeditUpdate{text, cursor}), from any Session state,
\* no commit is pending, the preedit text is the given text and the stored
\* cursor is the given cursor clamped into [0, number of code points of text].
C4_PreeditUpdateStored ==
  LastIsPreedit =>
    /\ app_state.commit_string = <<>>
    /\ app_state.preedit_string = last.update.text
    /\ app_state.preedit_cursor_pos =
         ( IF last.update.cursor_pos < 0 THEN 0
           ELSE IF last.update.cursor_pos > Len(last.update.text)
                THEN Len(last.update.text)
                ELSE last.update.cursor_pos )

\* A preedit update with a negative cursor was applied while a commit was
\* pending.
C4_Witness ==
  /\ LastIsPreedit
  /\ before.commit_string /= <<>>
  /\ last.update.text /= <<>>
  /\ last.update.cursor_pos < 0

\* The Session obtained by applying the updates of log, in order, to s.
RECURSIVE FoldUpdates(_, _)
FoldUpdates(s, log) ==
  IF log = <<>> THEN s
  ELSE FoldUpdates(apply_update(s, Head(log).update), Tail(log))

\* C5: however key events and IME updates interleave, the Session equals the
\* one obtained by applying only the IME updates the dispatcher took, in the
\* order it took them, to an empty Session.
C5_InterleavingSafety == app_state = FoldUpdates(AppState_new, applied)

\* The run has ended after two updates were applied and a key was forwarded
\* and answered.
C5_Witness ==
  /\ pc = "exited"
  /\ Len(applied) = 2
  /\ Len(forwarded) = 1
  /\ app_state /= AppState_new

\* A step of the terminal branch: a key event taken, or its forward answered.
KeyStep == TakeKey \/ \E reply \in ForwardReplies : ForwardReply(reply)

\* C6: handling a terminal key event (quit chord, unmapped key, forwarded key
\* answered true, false or with an error) leaves the Session unchanged and
\* triggers no render; the Session changes only when an IME update is applied.
C6_KeyHandlingFrame ==
  [][ /\ KeyStep => UNCHANGED << app_state, screen, render_count >>
      /\ app_state' /= app_state =>
           /\ last'.src = "ime" /\ last'.kind = "update"
           /\ Len(applied') = Len(applied) + 1 ]_vars

\* A forwarded key was answered "not handled" while the Session held text,
\* and every render so far belongs to start-up or to an update.
C6_Witness ==
  /\ last.src = "term"
  /\ last.reply = "false"
  /\ app_state /= AppState_new
  /\ render_count = Len(applied) + 1

LastIsQuitChord ==
  /\ last.src = "term"
  /\ last.kind = "key"
  /\ last.key.code = [kind |-> "Char", c |-> 99]
  /\ "CONTROL" \in last.key.modifiers

\* C7: a key event with code 'c' and Control held makes the dispatcher leave
\* the loop without mapping or forwarding it: no ProcessKeyEvent call ever
\* carries the quit chord.
C7_QuitChordNotForwarded ==
  /\ LastIsQuitChord =>
       /\ pc \in { "returned", "exited" }
       /\ loop_result = "Ok"
       /\ last.reply = "none"
       /\ pending_forward = NoCall
  /\ \A i \in 1 .. Len(forwarded) :
       ~ (forwarded[i].keysym = 99 /\ (forwarded[i].state \div 4) % 2 = 1)

\* The quit chord was taken after another key had been forwarded.
C7_Witness ==
  /\ LastIsQuitChord
  /\ pc = "returned"
  /\ Len(forwarded) = 1

\* C8: after the quit chord the dispatcher has left its loop, and the terminal
\* cleanup runs exactly once before the process exits: not before main
\* returns, and once when it has.
C8_QuitCleanupOnce ==
  /\ cleanup_count <= 1
  /\ LastIsQuitChord =>
       /\ pc \in { "returned", "exited" }
       /\ pc = "returned" => cleanup_count = 0 /\ raw_mode
       /\ pc = "exited" => cleanup_count = 1 /\ ~raw_mode

\* The process has exited with success after the quit chord.
C8_Witness ==
  /\ LastIsQuitChord
  /\ pc = "exited"
  /\ exit_status = "success"
  /\ cleanup_count = 1

\* C9: when the IME update stream yields no more items the dispatcher returns
\* the connection-lost error, which differs from every other result; it
\* neither returns Ok nor stays in its loop.
C9_StreamEndIsConnectionLost ==
  /\ (last.src = "ime" /\ last.kind = "end") =>
       /\ pc \in { "returned", "exited" }
       /\ loop_result = ErrStreamEnded
       /\ pc = "exited" => exit_status = "failure"
  /\ loop_result = ErrStreamEnded => (last.src = "ime" /\ last.kind = "end")

\* The connection dropped after an update had been applied, and the process
\* ended with a failure.
C9_Witness ==
  /\ last.src = "ime"
  /\ last.kind = "end"
  /\ applied /= <<>>
  /\ pc = "exited"
  /\ exit_status = "failure"

\* C10: when the terminal key-event source is exhausted the dispatcher leaves
\* its loop and returns Ok(()).
C10_TerminalEndReturnsOk ==
  (last.src = "term" /\ last.kind = "end") =>
    /\ pc \in { "returned", "exited" }
    /\ loop_result = "Ok"
    /\ term_closed /\ key_stream = <<>>

\* The terminal input ended after a key had been handled; the dispatcher has
\* returned.
C10_Witness ==
  /\ last.src = "term"
  /\ last.kind = "end"
  /\ keys_arrived > 0
  /\ pc = "returned"
  /\ loop_result = "Ok"

LastIsTermEnd == last.src = "term" /\ last.kind = "end"

\* The event handled last is one of the failures: an error item of a source,
\* the end of the IME stream, a failed subscription, a failed forward, a
\* failed render.
LastIsFailure ==
  \/ last.kind = "error"
  \/ last.src = "ime" /\ last.kind = "end"
  \/ last.reply = "error"
  \/ last.rendered = "error"

\* C11: the dispatcher returns Ok only if the event it handled last was the
\* quit chord or the end of the terminal source; after every other way out
\* (IME stream end, IME stream error, terminal read error, forward failure,
\* render failure, subscription failure) it has returned an error.
C11_OkOnlyOnQuitOrTerminalEnd ==
  /\ loop_result = "Ok" => LastIsQuitChord \/ LastIsTermEnd
  /\ LastIsFailure =>
       /\ pc \in { "returned", "exited" }
       /\ loop_result \in { ErrIo, ErrZbus, ErrStreamEnded, ErrNoProxy,
                            ErrNoProxySignals }
  /\ pc = "returned" => loop_result = "Ok" \/ LastIsFailure

\* The dispatcher returned an I/O error for a render that failed after a key
\* had been forwarded and answered.
C11_Witness ==
  /\ pc = "returned"
  /\ last.src = "ime"
  /\ last.rendered = "error"
  /\ loop_result = ErrIo
  /\ Len(forwarded) = 1

\* The results run_event_loop can return for the failure handled last.
ErrorsOfLast ==
  IF last.src = "start"
  THEN IF last.kind = "error" THEN { ErrZbus, ErrNoProxySignals } ELSE { ErrIo }
  ELSE IF last.src = "term"
  THEN IF last.kind = "error" THEN { ErrIo } ELSE { ErrZbus, ErrNoProxy }
  ELSE IF last.kind = "error" THEN { ErrZbus }
  ELSE IF last.kind = "end" THEN { ErrStreamEnded }
  ELSE { ErrIo }

\* C12: every error is final.  The first failure (terminal read error, IME
\* stream error, failed forward, failed render) makes the dispatcher return
\* that error; once it has returned, no further event of either source is
\* taken, nothing is forwarded, applied or rendered, and the result stays.
C12_FirstErrorIsFinal ==
  [][ /\ LastIsFailure' =>
           /\ pc' \in { "returned", "exited" }
           /\ loop_result' \in ErrorsOfLast'
      /\ loop_result /= "none" =>
           UNCHANGED << loop_result, last, app_state, screen, render_count,
                        forwarded, applied, pending_forward, key_stream,
                        commit_stream, preedit_stream >> ]_vars

\* The process ended on a failed forward while a key and a commit were still
\* waiting to be taken.
C12_Witness ==
  /\ pc = "exited"
  /\ last.reply = "error"
  /\ loop_result = ErrZbus
  /\ key_stream /= <<>>
  /\ commit_stream /= <<>>

\* C13: a ProcessKeyEvent reply of handled = false is not an error: the
\* dispatcher goes back to its wait, the Session and the screen are unchanged,
\* nothing is inserted locally and no further call is made for the key.
C13_NotHandledIsNotAnError ==
  [][ (pc = "forward" /\ last'.reply = "false") =>
        /\ pc' = "select"
        /\ loop_result' = "none"
        /\ pending_forward' = NoCall
        /\ UNCHANGED << app_state, screen, render_count, applied, forwarded >>
    ]_vars

\* A forwarded key was answered "not handled" while the Session held a
\* preedit, and the dispatcher waits with another key ready.
C13_Witness ==
  /\ last.reply = "false"
  /\ pc = "select"
  /\ loop_result = "none"
  /\ app_state.preedit_string /= <<>>
  /\ key_stream /= <<>>

\* C14: a ProcessKeyEvent call is made exactly when the key event taken is not
\* the quit chord and map_key_event_to_fcitx yields a mapping, and it carries
\* that mapping; for a key without a mapping no call is made, no error is
\* returned and the dispatcher stays in its loop.
C14_ForwardIffMapped ==
  [][ LET taken == /\ pc = "select"
                   /\ key_stream /= <<>>
                   /\ key_stream' = Tail(key_stream)
                   /\ Head(key_stream).ok
          k == Head(key_stream).key
          quit == k.code = [kind |-> "Char", c |-> 99] /\ "CONTROL" \in k.modifiers
          m == map_key_event_to_fcitx(k)
      IN  /\ forwarded' /= forwarded => taken /\ ~quit /\ m.some
          /\ (taken /\ ~quit /\ m.some) =>
               /\ forwarded' = Append(forwarded, Call(m.keysym, m.keycode, m.state, FALSE))
               /\ pending_forward' = Call(m.keysym, m.keycode, m.state, FALSE)
          /\ (taken /\ ~quit /\ ~m.some) =>
               /\ pc' = "select"
               /\ loop_result' = "none"
               /\ UNCHANGED << forwarded, pending_forward >> ]_vars

\* A key without a mapping was taken after another key had been forwarded,
\* and the dispatcher is back at its wait.
C14_Witness ==
  /\ last.src = "term"
  /\ last.kind = "key"
  /\ ~ map_key_event_to_fcitx(last.key).some
  /\ ~ LastIsQuitChord
  /\ last.reply = "none"
  /\ pc = "select"
  /\ loop_result = "none"
  /\ Len(forwarded) = 1

\* C15: every IME update taken is applied and then rendered before the next
\* wait: there is one render for start-up and one for each update applied,
\* none is applied without a render attempt, and at every wait the screen is
\* the rendering of the Session as the last complete apply_update left it.
C15_ApplyThenRender ==
  /\ applied /= <<>> => render_count = Len(applied) + 1
  /\ (last.src = "ime" /\ last.kind = "update") => last.rendered /= "none"
  /\ pc \in { "select", "forward" } =>
       /\ render_count = Len(applied) + 1
       /\ screen = render(app_state)
       /\ app_state = FoldUpdates(AppState_new, applied)

\* Two updates were applied and rendered, the second a commit that the screen
\* shows, and the dispatcher waits.
C15_Witness ==
  /\ pc = "select"
  /\ Len(applied) = 2
  /\ render_count = 3
  /\ LastIsCommit
  /\ before.preedit_string /= <<>>
  /\ screen.line /= <<>>

\* C16: the pending commit is one-shot: once a render has completed, and so
\* at every wait of the dispatcher, the Session holds no pending commit.
C16_PendingCommitOneShot ==
  /\ last.rendered = "ok" => app_state.commit_string = <<>>
  /\ pc \in { "select", "forward" } => app_state.commit_string = <<>>

\* C17: the IME updates are applied in the order the IME emitted them, commit
\* and preedit updates relative to each other included.
C17_EmissionOrder ==
  \A i, j \in 1 .. Len(applied) : i < j => applied[i].seq < applied[j].seq

\* The ProcessKeyEvent calls run_event_loop makes for the terminal items, in
\* order: the items that are errors, the quit chord or without a mapping
\* make none.
RECURSIVE ForwardsOf(_)
ForwardsOf(items) ==
  IF items = <<>> THEN <<>>
  ELSE LET k == Head(items).key
           quit == k.code = [kind |-> "Char", c |-> 99] /\ "CONTROL" \in k.modifiers
           m == map_key_event_to_fcitx(k)
       IN  ( IF Head(items).ok /\ ~quit /\ m.some
             THEN << Call(m.keysym, m.keycode, m.state, FALSE) >>
             ELSE <<>> ) \o ForwardsOf(Tail(items))

\* The terminal items taken so far, in arrival order.
TakenKeys == SubSeq(arrived, 1, Len(arrived) - Len(key_stream))

\* C18: terminal key events are handled in arrival order: the items waiting
\* are the latest arrivals, the ProcessKeyEvent calls made are those of the
\* items taken, in arrival order with the unmapped ones left out, and a call
\* is made only when no earlier call is still awaiting its reply.
C18_KeysInArrivalOrder ==
  [][ /\ key_stream' = SubSeq(arrived', Len(arrived') - Len(key_stream') + 1,
                              Len(arrived'))
      /\ forwarded' = ForwardsOf(TakenKeys')
      /\ forwarded' /= forwarded =>
           /\ pc = "select"
           /\ pending_forward = NoCall
           /\ pending_forward' = forwarded'[Len(forwarded')] ]_vars

\* Three keys arrived and were taken, the one without a mapping between two
\* different mapped ones, which were both forwarded.
C18_Witness ==
  /\ Len(arrived) = 3
  /\ key_stream = <<>>
  /\ ~ map_key_event_to_fcitx(arrived[2].key).some
  /\ Len(forwarded) = 2
  /\ forwarded[1].keysym /= forwarded[2].keysym

\* The dispatcher is inside its loop.
Running == pc \in { "select", "forward" }

\* The signal emitted as number n is waiting in one of the two streams.
UpdateWaiting(n) ==
  \/ \E i \in 1 .. Len(commit_stream) : commit_stream[i].seq = n
  \/ \E i \in 1 .. Len(preedit_stream) : preedit_stream[i].seq = n

\* The terminal item that arrived as number n is waiting in the key stream.
KeyWaiting(n) == Len(arrived) - Len(key_stream) < n /\ n <= Len(arrived)

\* When both sources have an item ready at the wait, either can be taken.
EitherMayBeTaken ==
  (pc = "select" /\ key_stream /= <<>>
     /\ (commit_stream /= <<>> \/ preedit_stream /= <<>>)) =>
    /\ ENABLED TakeKey
    /\ ENABLED (\E from \in { "commit", "preedit" }, outcome \in RenderOutcomes :
                  TakeUpdate(from, outcome))

\* Every item waiting while the dispatcher is in its loop is taken (an update
\* applied and rendered, a key handled) unless the dispatcher leaves the loop.
NoStarvation ==
  \A n \in 1 .. MaxEvents :
    /\ (Running /\ UpdateWaiting(n)) ~> (~UpdateWaiting(n) \/ ~Running)
    /\ (Running /\ KeyWaiting(n)) ~> (~KeyWaiting(n) \/ ~Running)

C20_RunToCompletion ==
  [][ /\ (pc = "forward") = (pending_forward /= NoCall)
      /\ pc = "forward" =>
           UNCHANGED << app_state, screen, render_count, applied, forwarded >>
      /\ applied' /= applied =>
           /\ pc = "select" /\ pc' /= "forward"
           /\ render_count' = render_count + 1
           /\ UNCHANGED << forwarded, pending_forward, key_stream >>
      /\ forwarded' /= forwarded =>
           UNCHANGED << app_state, screen, render_count, applied,
                        commit_stream, preedit_stream >> ]_vars

\* A ProcessKeyEvent call awaits its reply while a commit and a preedit
\* update, emitted meanwhile, wait untaken.
C20_Witness ==
  /\ pc = "forward"
  /\ pending_forward /= NoCall
  /\ commit_stream /= <<>>
  /\ preedit_stream /= <<>>
  /\ applied = <<>>
  /\ render_count = 1

\* The process has exited after the quit chord.
ExitedByQuitChord == pc = "exited" /\ LastIsQuitChord /\ loop_result = "Ok"

\* The process has exited on a SIGINT: through the ctrl_c branch of main's
\* select!, or killed by the signal.
ExitedBySignal ==
  /\ pc = "exited"
  /\ loop_result = "none"
  /\ exit_status \in { "success", "killed" }

\* C21: the external quit signal and the quit chord run the same cleanup
\* before the process exits: the terminal mode is restored and, where an input
\* context exists, FocusOut is the last thing sent to it.
C21_CancellationCleanup ==
  (ExitedByQuitChord \/ ExitedBySignal) =>
    /\ ~raw_mode
    /\ ic_calls /= <<>> => ic_calls[Len(ic_calls)] = "FocusOut"

\* C22: on every exit path of the process raw mode is off when the process
\* has exited.
C22_RawModeRestored == pc = "exited" => ~raw_mode

TerminalSetupFailed == setup /= <<>> /\ setup[1] = "Terminal::new: Err"

ConnectFailed == Len(setup) = 2 /\ setup[2] = "FcitxClient::connect: Err"

\* C23: a setup failure aborts before the loop: after a failed Terminal::new
\* no connection to the IME is attempted, and after either setup failure the
\* process has exited with the dispatcher never started: no event handled,
\* nothing rendered, nothing forwarded, nothing applied.
C23_SetupFailureAborts ==
  /\ TerminalSetupFailed => Len(setup) = 1 /\ ic_calls = <<>> /\ ~ic_proxy
  /\ (TerminalSetupFailed \/ ConnectFailed) =>
       /\ pc = "exited"
       /\ exit_status = "failure"
       /\ loop_result = "none"
       /\ last = NoEvent
       /\ render_count = 0
       /\ forwarded = <<>>
       /\ applied = <<>>
       /\ key_stream = <<>> /\ commit_stream = <<>> /\ preedit_stream = <<>>

\* The connection to the IME failed after the terminal had been set up, and
\* the process has exited with the terminal restored.
C23_Witness ==
  /\ ConnectFailed
  /\ setup[1] = "Terminal::new: Ok"
  /\ pc = "exited"
  /\ cleanup_count = 1

\* C24: a setup failure or an error returned by the dispatcher ends the
\* process with a failure status; the quit chord, the end of the terminal
\* input and an external interrupt end it with a success status.
C24_ExitStatus ==
  pc = "exited" =>
    /\ (TerminalSetupFailed \/ ConnectFailed) => exit_status = "failure"
    /\ loop_result \notin { "none", "Ok" } => exit_status = "failure"
    /\ loop_result = "Ok" => exit_status = "success"
    /\ (loop_result = "none" /\ ~TerminalSetupFailed /\ ~ConnectFailed) =>
         exit_status = "success"

\* The event handled last is an Ok key event of the terminal.
LastIsKey == last.src = "term" /\ last.kind = "key"

\* The key handled last was forwarded: it made the only ProcessKeyEvent call,
\* with what map_key_event_to_fcitx returns for it.
LastWasForwarded ==
  LET m == map_key_event_to_fcitx(last.key)
  IN  /\ m.some
      /\ forwarded = << Call(m.keysym, m.keycode, m.state, FALSE) >>

\* C25: for every character key event with character c the mapper returns a
\* mapping whose keysym is the code point of c, for the characters 0x20..0x7e
\* (through their hand-enumerated constants) and for every other character;
\* unless the key is the quit chord, that keysym is what is forwarded.
C25_CharKeysymIsCodePoint ==
  (LastIsKey /\ last.key.code.kind = "Char") =>
    /\ map_key_event_to_fcitx(last.key).some
    /\ map_key_event_to_fcitx(last.key).keysym = last.key.code.c
    /\ ~LastIsQuitChord =>
         /\ LastWasForwarded
         /\ forwarded[1].keysym = last.key.code.c

\* The character あ, with Shift and Alt held, was forwarded as keysym
\* 0x3042 and the call answered.
C25_Witness ==
  /\ LastIsKey
  /\ last.key = KeyEv("Char", 12354, { "SHIFT", "ALT" })
  /\ forwarded /= <<>>
  /\ forwarded[1].keysym = 12354
  /\ last.reply = "true"

\* The keysyms of the nine named keys as the specification lists them:
\* 0xff08, 0xff09, 0xff0d, 0xff1b, 0xff51 .. 0xff54, 0xffff.
NamedKeySymbols ==
  [ Backspace |-> 65288, Tab |-> 65289, Enter |-> 65293, Esc |-> 65307,
    Left |-> 65361, Up |-> 65362, Right |-> 65363, Down |-> 65364,
    Delete |-> 65535 ]

\* C26: each of the nine named keys is mapped, and forwarded, with exactly its
\* listed keysym, for every combination of modifiers.
C26_NamedKeySymbols ==
  (LastIsKey /\ last.key.code.kind \in DOMAIN NamedKeySymbols) =>
    /\ map_key_event_to_fcitx(last.key).keysym = NamedKeySymbols[last.key.code.kind]
    /\ LastWasForwarded
    /\ forwarded[1].keysym = NamedKeySymbols[last.key.code.kind]

\* Delete with every modifier held was forwarded as 0xffff.
C26_Witness ==
  /\ LastIsKey
  /\ last.key = KeyEv("Delete", 0, Modifiers)
  /\ forwarded /= <<>>
  /\ forwarded[1].keysym = 65535
  /\ pc = "forward"

\* C27: no character key event is mapped to the keysym of a named key.
C27_NamedSymbolsDistinctFromChars ==
  (LastIsKey /\ last.key.code.kind = "Char") =>
    /\ \A name \in DOMAIN NamedKeySymbols :
         map_key_event_to_fcitx(last.key).keysym /= NamedKeySymbols[name]
    /\ \A i \in 1 .. Len(forwarded) :
         \A name \in DOMAIN NamedKeySymbols :
           forwarded[i].keysym /= NamedKeySymbols[name]

\* C28: the mapper returns a mapping for every character key and each of the
\* nine named keys and None for every other key, whatever the modifiers; a
\* key it returns None for is not forwarded and the dispatcher waits on.
C28_UnmappedKeys ==
  LastIsKey =>
    /\ map_key_event_to_fcitx(last.key).some =
         ( last.key.code.kind = "Char" \/ last.key.code.kind \in MappedNames )
    /\ (last.key.code.kind /= "Char" /\ last.key.code.kind \notin MappedNames) =>
         /\ map_key_event_to_fcitx(last.key) = NoMapping
         /\ forwarded = <<>>
         /\ pc = "select"
         /\ loop_result = "none"

\* F12 with Control and Shift held was taken and not forwarded.
C28_Witness ==
  /\ LastIsKey
  /\ last.key = KeyEv("F", 12, { "CONTROL", "SHIFT" })
  /\ forwarded = <<>>
  /\ pc = "select"

\* C29: the state of a mapping is the sum of one bit per modifier held among
\* Shift (bit 0), Control (bit 2) and Alt (bit 3); Super, Hyper and Meta set
\* no bit and cause no error.
C29_ModifierMask ==
  LET bits == (IF "SHIFT" \in last.key.modifiers THEN 1 ELSE 0)
              + (IF "CONTROL" \in last.key.modifiers THEN 4 ELSE 0)
              + (IF "ALT" \in last.key.modifiers THEN 8 ELSE 0)
  IN  (LastIsKey /\ map_key_event_to_fcitx(last.key).some) =>
        /\ map_key_event_to_fcitx(last.key).state = bits
        /\ \A i \in 1 .. Len(forwarded) : forwarded[i].state = bits
        /\ loop_result \in { "none", "Ok", ErrZbus }
        /\ loop_result = ErrZbus => last.reply = "error"

\* A character with all six modifiers held was forwarded with state 13
\* (Shift, Control and Alt) and answered.
C29_Witness ==
  /\ LastIsKey
  /\ last.key = KeyEv("Char", 97, Modifiers)
  /\ forwarded /= <<>>
  /\ forwarded[1].state = 13
  /\ last.reply = "false"

\* C30: every ProcessKeyEvent call made carries keycode 0 and is_release
\* FALSE, whatever key event caused it.
C30_PlaceholderCodeNoRelease ==
  /\ \A i \in 1 .. Len(forwarded) :
       forwarded[i].keycode = 0 /\ forwarded[i].is_release = FALSE
  /\ pending_forward.keycode = 0 /\ pending_forward.is_release = FALSE

\* A named key with modifiers held is being forwarded.
C30_Witness ==
  /\ LastIsKey
  /\ last.key = KeyEv("Backspace", 0, { "ALT" })
  /\ pc = "forward"
  /\ pending_forward = Call(65288, 0, 8, FALSE)
  /\ forwarded = << pending_forward >>

\* The number of bytes of the UTF-8 encoding of the code point c.
Utf8Len(c) == IF c < 128 THEN 1 ELSE IF c < 2048 THEN 2 ELSE IF c < 65536 THEN 3 ELSE 4

\* The number of code points of text that lie wholly before byte offset b of
\* its UTF-8 encoding.
RECURSIVE CodepointOffset(_, _)
CodepointOffset(text, b) ==
  IF text = <<>> \/ b < Utf8Len(Head(text)) THEN 0
  ELSE 1 + CodepointOffset(Tail(text), b - Utf8Len(Head(text)))

MixedFrame ==
  /\ \E i \in 1 .. Len(screen.line) : screen.line[i].underlined
  /\ \E i \in 1 .. Len(screen.line) : ~screen.line[i].underlined

\* C32: in every reachable Session state a non-empty preedit and a pending
\* commit do not coexist, so no frame shows a preedit and a commit together.
C32_PreeditAndCommitExclusive ==
  /\ app_state.preedit_string = <<>> \/ app_state.commit_string = <<>>
  /\ ~MixedFrame

\* A preedit update was applied and rendered while a commit was pending, after
\* that commit had itself replaced a preedit.
C32_Witness ==
  /\ Len(applied) = 3
  /\ applied[1].update.type = "UpdatePreedit"
  /\ applied[2].update.type = "CommitString"
  /\ LastIsPreedit
  /\ last.rendered = "ok"
  /\ before.commit_string /= <<>>
  /\ app_state.preedit_string /= <<>>

\* Nothing has been taken from either source, forwarded, applied or painted.
NothingHandled ==
  /\ TakenKeys = <<>>
  /\ forwarded = <<>>
  /\ applied = <<>>
  /\ pending_forward = NoCall
  /\ app_state = AppState_new

\* The last step was a failed subscription or a failed initial render.
StartupFailed ==
  /\ last.src = "start"
  /\ last.kind = "error" \/ last.rendered = "error"

\* C33: start-up is ordered. While the subscription is being made nothing has
\* been rendered or handled; the initial render follows a successful
\* subscription and is the first render; when the first event may be taken the
\* empty Session has been rendered exactly once; every handled event and every
\* forwarded key comes after that render; and a failed subscription or initial
\* render returns an error with no key forwarded and no update applied.
C33_StartupOrder ==
  /\ pc = "receive_updates" => (render_count = 0 /\ screen = EmptyScreen /\ NothingHandled)
  /\ pc = "initial_render" =>
       /\ last.src = "start" /\ last.kind = "subscribe"
       /\ render_count = 0
       /\ NothingHandled
  /\ (Running /\ last.src = "start") =>
       /\ last.kind = "render" /\ last.rendered = "ok"
       /\ render_count = 1
       /\ screen = render(AppState_new)
       /\ NothingHandled
  /\ (last.src \in { "term", "ime" } \/ forwarded /= <<>> \/ applied /= <<>>) =>
       render_count >= 1
  /\ StartupFailed =>
       /\ ~Running
       /\ loop_result \in ErrorsOfLast
       /\ NothingHandled
       /\ render_count = (IF last.kind = "render" THEN 1 ELSE 0)

\* The initial render failed after a successful subscription while a key was
\* already waiting in the terminal source: the dispatcher has returned an
\* error without taking the key.
C33_Witness ==
  /\ pc = "returned"
  /\ last.src = "start" /\ last.kind = "render" /\ last.rendered = "error"
  /\ loop_result = ErrIo
  /\ render_count = 1
  /\ key_stream /= <<>>

\* A successfully read Control+c key event is in the sequence items.
HoldsQuitChord(items) ==
  \E i \in 1 .. Len(items) :
    /\ items[i].ok
    /\ items[i].key.code = [kind |-> "Char", c |-> 99]
    /\ "CONTROL" \in items[i].key.modifiers

\* The terminal source holds a Control+c key event not yet taken.
QuitChordWaiting == HoldsQuitChord(key_stream)

\* The dispatcher has taken a Control+c key event from the terminal source.
QuitChordTaken == HoldsQuitChord(TakenKeys)

\* The dispatcher's run ended early: it returned an error, or the interrupt
\* cancelled it.
EndedEarly == loop_result \notin { "none", "Ok" } \/ ExitedBySignal

\* C34: taking the quit chord makes the dispatcher return Ok; the chord is not
\* taken while a ProcessKeyEvent call awaits its reply; and under fair
\* selection, provided every such call is answered, a Control+c waiting in the
\* terminal source while the dispatcher runs is eventually taken, unless an
\* error or the interrupt ends the run first.
C34_QuitChordEventuallyReturns ==
  /\ [](QuitChordTaken => (loop_result = "Ok" /\ LastIsQuitChord /\ ~Running))
  /\ []((pc = "forward" /\ QuitChordWaiting) => ~ENABLED TakeKey)
  /\ (pc = "forward" ~> pc /= "forward") =>
       ((Running /\ QuitChordWaiting) ~> (QuitChordTaken \/ EndedEarly))

\* The dispatcher returned Ok on a Control+c that had waited behind a
\* forwarded key whose ProcessKeyEvent call was answered.
C34_Witness ==
  /\ pc = "returned"
  /\ loop_result = "Ok"
  /\ QuitChordTaken
  /\ Len(TakenKeys) >= 2
  /\ Len(forwarded) >= 1
  /\ pending_forward = NoCall

====
